---- MODULE Spec2Model ----
(***************************************************************************)
(* Batched accumulators of nemo/collections/asr/parts/utils/rnnt_utils.py: *)
(* BatchedHyps (labels, time indices, scores per batch item) and           *)
(* BatchedAlignments (per-step logits, labels, frame confidence).          *)
(*                                                                         *)
(* Tensors are modelled as a shape and a row-major flat data array, so     *)
(* that torch.cat(..., dim=-1), .view(-1) and flat index assignment are    *)
(* computed the way the code computes them.  Floating point values are     *)
(* counted in halves (the value v stands for v/2), integer (long) tensors  *)
(* hold plain integers.                                                    *)
(***************************************************************************)
EXTENDS Integers, Sequences, FiniteSets, TLC

VARIABLES hyps, aligns, made, last, h_log, a_log, hypotheses, heap

vars == <<hyps, aligns, made, last, h_log, a_log, hypotheses, heap>>

\* ------------------------------------------------------------------ bounds
MaxBatch == 2
MaxInit == 1
MaxDim == 2
MaxTotal == 3
MaxSteps == 2
MaxSession == 3

\* values a caller passes: a label with its score, the time index of a label;
\* the first logit of a step with the step's label and confidence
Emissions == {[label |-> 1, score |-> 1], [label |-> 2, score |-> 2]}
TimeIndices == {0, 1}
StepResults == {[logit |-> 1, label |-> 0, confidence |-> 1],
                [logit |-> 3, label |-> 1, confidence |-> 2]}

None == [cls |-> "None"]

\* ----------------------------------------------------------------- helpers
RECURSIVE numel(_)
numel(shape) == IF Len(shape) = 0 THEN 1 ELSE Head(shape) * numel(Tail(shape))

Range(f) == {f[x] : x \in DOMAIN f}

MaxOf(S) == CHOOSE m \in S : \A x \in S : x <= m

RECURSIVE SumOver(_, _)
SumOver(f, S) == IF S = {} THEN 0
                 ELSE LET x == CHOOSE y \in S : TRUE IN f[x] + SumOver(f, S \ {x})

\* position of batch index b in active_indices (0 when absent)
PosOf(active_indices, b) ==
    IF \E i \in 1..Len(active_indices) : active_indices[i] = b
    THEN CHOOSE i \in 1..Len(active_indices) : active_indices[i] = b
    ELSE 0

\* sequences of distinct batch indices of a batch of the given size
ActiveSeqs(batch_size) ==
    {s \in UNION {[1..n -> 0..(batch_size - 1)] : n \in 0..batch_size} :
        \A i, j \in 1..Len(s) : i # j => s[i] # s[j]}

\* ----------------------------------------------------------------- tensors
zeros(shape, dtype) ==
    [cls |-> "Tensor", shape |-> shape, dtype |-> dtype,
     data |-> [i \in 0..(numel(shape) - 1) |-> 0]]

\* mutant: the zeros are appended to the flat data, not to each row
cat_zeros_like_flat(t) ==
    LET n == Len(t.shape)
        shape2 == [t.shape EXCEPT ![n] = 2 * t.shape[n]]
    IN [t EXCEPT !.shape = shape2,
                 !.data = [i \in 0..(numel(shape2) - 1) |->
                             IF i < numel(t.shape) THEN t.data[i] ELSE 0]]

\* torch.cat((t, torch.zeros_like(t)), dim=-1): the LAST axis doubles
cat_zeros_like(t) ==
    LET n == Len(t.shape)
        w == t.shape[n]
        shape2 == [t.shape EXCEPT ![n] = 2 * w]
    IN [t EXCEPT !.shape = shape2,
                 !.data = [i \in 0..(numel(shape2) - 1) |->
                             IF i % (2 * w) < w
                             THEN t.data[(i \div (2 * w)) * w + (i % (2 * w))]
                             ELSE 0]]

\* conversion of a float value (in halves) to the tensor's dtype
cast(dtype, v) ==
    IF dtype = "long" THEN (IF v >= 0 THEN v \div 2 ELSE -((-v) \div 2)) ELSE v

\* t[b, j] of a 2-d tensor, t[b, j, k] of a 3-d tensor
At2(t, b, j) == t.data[b * t.shape[2] + j]
At3(t, b, j, k) == t.data[(b * t.shape[2] + j) * t.shape[3] + k]

\* t.view(-1, width)[indices] = values, where values[i] is a row of vwidth
\* elements (broadcast over the row when vwidth = 1) already in t's dtype.
\* The set of outcomes: the shape check precedes the kernel, the kernel checks
\* each index as it goes, so an out-of-range index raises after any subset of
\* the other rows was written.
WriteRows(t, width, indices, values, vwidth, S) ==
    [t EXCEPT !.data = [p \in DOMAIN t.data |->
        IF width > 0 /\ \E i \in S : indices[i] = p \div width
        THEN LET i == CHOOSE i \in S : indices[i] = p \div width
             IN IF vwidth = 1 THEN values[i][1] ELSE values[i][(p % width) + 1]
        ELSE t.data[p]]]

view_index_put(t, width, indices, values, vwidth) ==
    LET rows == IF width = 0 THEN 0 ELSE numel(t.shape) \div width
        inb == {i \in 1..Len(indices) : indices[i] >= 0 /\ indices[i] < rows}
    IN IF width = 0
       THEN {[raised |-> "RuntimeError", t |-> t]}
       ELSE IF vwidth # width /\ vwidth # 1
       THEN {[raised |-> "RuntimeError", t |-> t]}
       ELSE IF inb = 1..Len(indices)
       THEN {[raised |-> "none", t |-> WriteRows(t, width, indices, values, vwidth, inb)]}
       ELSE {[raised |-> "IndexError", t |-> WriteRows(t, width, indices, values, vwidth, S)] :
                S \in SUBSET inb}

\* mutant: the row offset active_indices * self._max_length is left out
flat_indices_no_row(self, active_indices) ==
    [i \in 1..Len(active_indices) |-> self.lengths[active_indices[i]]]

\* active_indices * self._max_length + self.lengths[active_indices]
flat_indices(self, active_indices) ==
    [i \in 1..Len(active_indices) |->
        active_indices[i] * self.max_length + self.lengths[active_indices[i]]]

\* a sequence of scalars as rows of width 1
Scalars(xs) == [i \in 1..Len(xs) |-> <<xs[i]>>]

\* t.view(-1)[indices] = values with values of a floating dtype (counted in
\* halves).  When t holds integers, index_put_ either converts each value to
\* t's dtype or refuses the mismatch of dtypes with a RuntimeError before
\* anything is written, depending on the torch build.
view_index_put_float(t, indices, values) ==
    LET converted == view_index_put(t, 1, indices,
                         Scalars([i \in 1..Len(indices) |-> cast(t.dtype, values[i])]), 1)
    IN IF t.dtype = "float" THEN converted
       ELSE converted \cup {[raised |-> "RuntimeError", t |-> t]}

\* ------------------------------------------------------------- BatchedHyps
\* mutant: init_length = 0 passes the check
BatchedHyps_init_lax(batch_size, init_length) ==
    IF init_length < 0 THEN [raised |-> "ValueError", self |-> None]
    ELSE IF batch_size <= 0 THEN [raised |-> "ValueError", self |-> None]
    ELSE [raised |-> "none",
          self |-> [cls |-> "BatchedHyps",
                    max_length |-> init_length,
                    lengths |-> [b \in 0..(batch_size - 1) |-> 0],
                    transcript |-> zeros(<<batch_size, init_length>>, "long"),
                    timesteps |-> zeros(<<batch_size, init_length>>, "long"),
                    scores |-> [b \in 0..(batch_size - 1) |-> 0],
                    last_timestep_lasts |-> [b \in 0..(batch_size - 1) |-> 0],
                    last_timestep |-> [b \in 0..(batch_size - 1) |-> -1]]]

\* BatchedHyps.__init__(batch_size, init_length)
BatchedHyps_init(batch_size, init_length) ==
    IF init_length <= 0 THEN [raised |-> "ValueError", self |-> None]
    ELSE IF batch_size <= 0 THEN [raised |-> "ValueError", self |-> None]
    ELSE [raised |-> "none",
          self |-> [cls |-> "BatchedHyps",
                    max_length |-> init_length,
                    lengths |-> [b \in 0..(batch_size - 1) |-> 0],
                    transcript |-> zeros(<<batch_size, init_length>>, "long"),
                    timesteps |-> zeros(<<batch_size, init_length>>, "long"),
                    scores |-> [b \in 0..(batch_size - 1) |-> 0],
                    last_timestep_lasts |-> [b \in 0..(batch_size - 1) |-> 0],
                    last_timestep |-> [b \in 0..(batch_size - 1) |-> -1]]]

\* mutant: the grown buffers are new and empty, the old cells are not copied
BatchedHyps_allocate_more_fresh(self) ==
    [self EXCEPT !.transcript = zeros(<<@.shape[1], 2 * @.shape[2]>>, @.dtype),
                 !.timesteps = zeros(<<@.shape[1], 2 * @.shape[2]>>, @.dtype),
                 !.max_length = 2 * self.max_length]

\* BatchedHyps._allocate_more
BatchedHyps_allocate_more(self) ==
    [self EXCEPT !.transcript = cat_zeros_like(self.transcript),
                 !.timesteps = cat_zeros_like(self.timesteps),
                 !.max_length = 2 * self.max_length]

\* mutant: grows one call early, when the next label would fill the buffer
BatchedHyps_needs_more_eager(self) == MaxOf(Range(self.lengths)) + 1 >= self.max_length

\* mutant: grows only once a length exceeds the capacity
BatchedHyps_needs_more_late(self) == MaxOf(Range(self.lengths)) > self.max_length

\* the growth test of BatchedHyps.add_results_
BatchedHyps_needs_more(self) == MaxOf(Range(self.lengths)) >= self.max_length

\* mutant: self.lengths += 1 for the whole batch
BatchedHyps_bookkeeping_all(self, active_indices, time_indices) ==
    [self EXCEPT
        !.last_timestep_lasts = [b \in DOMAIN @ |->
            LET i == PosOf(active_indices, b)
            IN IF i = 0 THEN @[b]
               ELSE IF self.last_timestep[b] = time_indices[i] THEN @[b] + 1 ELSE 1],
        !.last_timestep = [b \in DOMAIN @ |->
            LET i == PosOf(active_indices, b)
            IN IF i = 0 THEN @[b] ELSE time_indices[i]],
        !.lengths = [b \in DOMAIN @ |-> @[b] + 1]]

\* mutant: last_timestep is assigned before it is compared
BatchedHyps_bookkeeping_swapped(self, active_indices, time_indices) ==
    [self EXCEPT
        !.last_timestep_lasts = [b \in DOMAIN @ |->
            IF PosOf(active_indices, b) = 0 THEN @[b] ELSE @[b] + 1],
        !.last_timestep = [b \in DOMAIN @ |->
            LET i == PosOf(active_indices, b)
            IN IF i = 0 THEN @[b] ELSE time_indices[i]],
        !.lengths = [b \in DOMAIN @ |->
            IF PosOf(active_indices, b) = 0 THEN @[b] ELSE @[b] + 1]]

\* mutant: every active item gets the time index of the first one
BatchedHyps_bookkeeping_first(self, active_indices, time_indices) ==
    [self EXCEPT
        !.last_timestep_lasts = [b \in DOMAIN @ |->
            IF PosOf(active_indices, b) = 0 THEN @[b]
            ELSE IF self.last_timestep[b] = time_indices[1] THEN @[b] + 1 ELSE 1],
        !.last_timestep = [b \in DOMAIN @ |->
            IF PosOf(active_indices, b) = 0 THEN @[b] ELSE time_indices[1]],
        !.lengths = [b \in DOMAIN @ |->
            IF PosOf(active_indices, b) = 0 THEN @[b] ELSE @[b] + 1]]

\* the statements of BatchedHyps.add_results_ after both flat writes succeeded
BatchedHyps_bookkeeping(self, active_indices, time_indices) ==
    [self EXCEPT
        !.last_timestep_lasts = [b \in DOMAIN @ |->
            LET i == PosOf(active_indices, b)
            IN IF i = 0 THEN @[b]
               ELSE IF self.last_timestep[b] = time_indices[i] THEN @[b] + 1 ELSE 1],
        !.last_timestep = [b \in DOMAIN @ |->
            LET i == PosOf(active_indices, b)
            IN IF i = 0 THEN @[b] ELSE time_indices[i]],
        !.lengths = [b \in DOMAIN @ |->
            IF PosOf(active_indices, b) = 0 THEN @[b] ELSE @[b] + 1]]

\* BatchedHyps.add_results_ past its early return: the set of outcomes
\* [raised, self]
BatchedHyps_add_nonempty(self, active_indices, labels, time_indices, scores) ==
    LET s1 == IF BatchedHyps_needs_more(self) THEN BatchedHyps_allocate_more(self) ELSE self
        s2 == [s1 EXCEPT !.scores = [b \in DOMAIN @ |->
                  LET i == PosOf(active_indices, b)
                  IN IF i = 0 THEN @[b] ELSE @[b] + scores[i]]]
        indices_to_use == flat_indices(s2, active_indices)
    IN UNION {
         IF o1.raised # "none"
         THEN {[raised |-> o1.raised, self |-> [s2 EXCEPT !.transcript = o1.t]]}
         ELSE {[raised |-> o2.raised,
                self |-> IF o2.raised # "none"
                         THEN [s2 EXCEPT !.transcript = o1.t, !.timesteps = o2.t]
                         ELSE BatchedHyps_bookkeeping(
                                 [s2 EXCEPT !.transcript = o1.t, !.timesteps = o2.t],
                                 active_indices, time_indices)] :
               o2 \in view_index_put(s2.timesteps, 1, indices_to_use, Scalars(time_indices), 1)} :
         o1 \in view_index_put(s2.transcript, 1, indices_to_use, Scalars(labels), 1)}

\* mutant: the early return on an empty active set is missing
BatchedHyps_add_results_no_return(self, active_indices, labels, time_indices, scores) ==
    BatchedHyps_add_nonempty(self, active_indices, labels, time_indices, scores)

\* BatchedHyps.add_results_: the set of outcomes [raised, self]
BatchedHyps_add_results_(self, active_indices, labels, time_indices, scores) ==
    IF Len(active_indices) = 0 THEN {[raised |-> "none", self |-> self]}
    ELSE BatchedHyps_add_nonempty(self, active_indices, labels, time_indices, scores)

\* ------------------------------------------------------- BatchedAlignments
\* BatchedAlignments.__init__(batch_size, logits_dim, init_length,
\*                            with_frame_confidence)
\* torch.zeros refuses a negative dimension with a RuntimeError.
BatchedAlignments_init(batch_size, logits_dim, init_length, with_frame_confidence) ==
    IF init_length <= 0 THEN [raised |-> "ValueError", self |-> None]
    ELSE IF batch_size <= 0 THEN [raised |-> "ValueError", self |-> None]
    ELSE IF logits_dim < 0 THEN [raised |-> "RuntimeError", self |-> None]
    ELSE [raised |-> "none",
          self |-> [cls |-> "BatchedAlignments",
                    with_frame_confidence |-> with_frame_confidence,
                    max_length |-> init_length,
                    logits |-> zeros(<<batch_size, init_length, logits_dim>>, "float"),
                    labels |-> zeros(<<batch_size, init_length>>, "long"),
                    lengths |-> [b \in 0..(batch_size - 1) |-> 0],
                    frame_confidence |->
                        IF with_frame_confidence
                        THEN zeros(<<batch_size, init_length>>, "long")
                        ELSE None]]

\* mutant: frame_confidence is not grown with the other buffers
BatchedAlignments_allocate_more_no_confidence(self) ==
    [self EXCEPT !.logits = cat_zeros_like(self.logits),
                 !.labels = cat_zeros_like(self.labels),
                 !.max_length = 2 * self.max_length]

\* BatchedAlignments._allocate_more
BatchedAlignments_allocate_more(self) ==
    [self EXCEPT !.logits = cat_zeros_like(self.logits),
                 !.labels = cat_zeros_like(self.labels),
                 !.frame_confidence = IF self.with_frame_confidence
                                      THEN cat_zeros_like(self.frame_confidence)
                                      ELSE self.frame_confidence,
                 !.max_length = 2 * self.max_length]

\* the growth test of BatchedAlignments.add_results_
BatchedAlignments_needs_more(self) == MaxOf(Range(self.lengths)) >= self.max_length

\* self.lengths[active_indices] += 1
BatchedAlignments_count(self, active_indices) ==
    [self EXCEPT !.lengths = [b \in DOMAIN @ |->
        IF PosOf(active_indices, b) = 0 THEN @[b] ELSE @[b] + 1]]

\* BatchedAlignments.add_results_: the set of outcomes [raised, self].
\* logits is a sequence of rows, labels a sequence of integers, confidence
\* None or [cls |-> "Values", values |-> a sequence of floats].
BatchedAlignments_add_results_(self, active_indices, logits, labels, confidence) ==
    IF Len(active_indices) = 0 THEN {[raised |-> "none", self |-> self]}
    ELSE
    LET s1 == IF BatchedAlignments_needs_more(self)
              THEN BatchedAlignments_allocate_more(self) ELSE self
        logits_dim == s1.logits.shape[3]
        indices_to_use == flat_indices(s1, active_indices)
        Done(s, raised) == [raised |-> raised, self |-> s]
    IN UNION {
         IF o1.raised # "none"
         THEN {Done([s1 EXCEPT !.logits = o1.t], o1.raised)}
         ELSE UNION {
           LET s3 == [s1 EXCEPT !.logits = o1.t, !.labels = o2.t]
           IN IF o2.raised # "none"
              THEN {Done(s3, o2.raised)}
              ELSE IF s3.with_frame_confidence /\ confidence # None
              THEN {IF o3.raised # "none"
                    THEN Done([s3 EXCEPT !.frame_confidence = o3.t], o3.raised)
                    ELSE Done(BatchedAlignments_count(
                                 [s3 EXCEPT !.frame_confidence = o3.t], active_indices),
                              "none") :
                    o3 \in view_index_put_float(s3.frame_confidence, indices_to_use,
                                                confidence.values)}
              ELSE {Done(BatchedAlignments_count(s3, active_indices), "none")} :
           o2 \in view_index_put(s1.labels, 1, indices_to_use, Scalars(labels), 1)} :
         o1 \in view_index_put(s1.logits, logits_dim, indices_to_use, logits,
                               IF Len(logits[1]) = 0 THEN 0 ELSE Len(logits[1]))}

\* ------------------------------------------------------ storage and views
\* The storage a buffer of an accumulator occupies.  A buffer is allocated by
\* __init__ and replaced by _allocate_more only (torch.cat builds a new
\* tensor), which doubles _max_length: the field and the capacity name the
\* allocation.
storage_of(field, obj) == [field |-> field, cap |-> obj.max_length]

\* mutant: the whole row, not the first n cells
row_prefix_untrimmed(t, sid, i, n) ==
    [cls |-> "View", sid |-> sid, offset |-> i * t.shape[2], len |-> t.shape[2]]

\* t[i, :n] of a 2-d tensor: a view of the first n cells of row i (a slice
\* bound past the end of the row is clamped)
row_prefix(t, sid, i, n) ==
    [cls |-> "View", sid |-> sid, offset |-> i * t.shape[2],
     len |-> IF n < t.shape[2] THEN n ELSE t.shape[2]]

\* t[i, j]: integer indexing checks both indices
in_range(t, i, j) == i >= 0 /\ i < t.shape[1] /\ j >= 0 /\ j < t.shape[2]

\* t[i, j] of a 2-d tensor (a view of one cell) and of a 3-d tensor (a view
\* of one row of t.shape[3] cells)
select(t, sid, i, j) ==
    LET w == IF Len(t.shape) = 3 THEN t.shape[3] ELSE 1
    IN [cls |-> "View", sid |-> sid, offset |-> (i * t.shape[2] + j) * w, len |-> w]

\* t[i, :n].tolist(): the values, copied
row_prefix_tolist(t, i, n) ==
    LET m == IF n < t.shape[2] THEN n ELSE t.shape[2]
    IN [k \in 1..m |-> At2(t, i, k - 1)]

\* the cells a view shows, read from the storages
Deref(storages, v) == [k \in 1..v.len |-> storages[v.sid][v.offset + k - 1]]

\* ------------------------------------------------ batched_hyps_to_hypotheses
\* the list comprehension of batched_hyps_to_hypotheses: what it raises and
\* the list it builds.  The list is built item by item; an index past the end
\* of a buffer raises IndexError and nothing is returned.
build_hypotheses(batched_hyps, alignments) ==
    LET batch == 0..(Cardinality(DOMAIN batched_hyps.scores) - 1)
        ok == \/ alignments = None
              \/ \A i \in batch :
                   /\ i \in DOMAIN alignments.lengths
                   /\ \A time_i \in 0..(alignments.lengths[i] - 1) :
                        /\ in_range(alignments.labels, i, time_i)
                        /\ in_range(alignments.logits, i, time_i)
        Hyp(i) ==
            [cls |-> "Hypothesis",
             score |-> batched_hyps.scores[i],
             y_sequence |-> row_prefix(batched_hyps.transcript,
                               storage_of("transcript", batched_hyps),
                               i, batched_hyps.lengths[i]),
             timestep |-> row_prefix(batched_hyps.timesteps,
                             storage_of("timesteps", batched_hyps),
                             i, batched_hyps.lengths[i]),
             alignments |->
                 IF alignments = None THEN None
                 ELSE [cls |-> "List",
                       items |-> [k \in 1..alignments.lengths[i] |->
                          [label |-> select(alignments.labels,
                                        storage_of("labels", alignments), i, k - 1),
                           logits |-> select(alignments.logits,
                                         storage_of("logits", alignments), i, k - 1)]]],
             frame_confidence |->
                 IF alignments = None THEN None
                 ELSE IF ~alignments.with_frame_confidence THEN None
                 ELSE [cls |-> "List",
                       items |-> <<row_prefix_tolist(alignments.frame_confidence, i,
                                                     alignments.lengths[i])>>],
             dec_state |-> None]
    IN IF ok
       THEN [raised |-> "none",
             hypotheses |-> [cls |-> "List", items |-> [i \in batch |-> Hyp(i)]]]
       ELSE [raised |-> "IndexError", hypotheses |-> None]

\* mutant: the conversion drains the accumulator it has read
batched_hyps_to_hypotheses_draining(batched_hyps, alignments) ==
    LET r == build_hypotheses(batched_hyps, alignments)
    IN [raised |-> r.raised, hypotheses |-> r.hypotheses,
        batched_hyps |-> IF r.raised = "none"
                         THEN [batched_hyps EXCEPT !.lengths = [b \in DOMAIN @ |-> 0]]
                         ELSE batched_hyps,
        alignments |-> alignments]

\* batched_hyps_to_hypotheses(batched_hyps, alignments): what it raises, the
\* list it returns, and its two arguments as the call leaves them (no
\* statement of the function assigns to them)
batched_hyps_to_hypotheses(batched_hyps, alignments) ==
    LET r == build_hypotheses(batched_hyps, alignments)
    IN [raised |-> r.raised, hypotheses |-> r.hypotheses,
        batched_hyps |-> batched_hyps, alignments |-> alignments]

\* ------------------------------------------------------------------- heap
\* the accumulators h, a still hold the storage s
IsLive(s, h, a) ==
    IF s.field \in {"transcript", "timesteps"}
    THEN h # None /\ h.max_length = s.cap
    ELSE a # None /\ a.max_length = s.cap

\* the cells of the storage s that the accumulators h, a hold
LiveData(s, h, a) ==
    IF s.field \in {"transcript", "timesteps"} THEN h[s.field].data ELSE a[s.field].data

\* the storages after the accumulators became h, a: a storage they still
\* hold shows what they wrote, a storage they dropped keeps its cells
Refresh(storages, h, a) ==
    [s \in DOMAIN storages |->
        IF IsLive(s, h, a) THEN LiveData(s, h, a) ELSE storages[s]]

\* the storages that the views of a list of Hypothesis refer to
Referenced(hs) ==
    IF hs = None THEN {}
    ELSE UNION {
        {hs.items[i].y_sequence.sid, hs.items[i].timestep.sid} \cup
        (IF hs.items[i].alignments = None THEN {}
         ELSE UNION {{hs.items[i].alignments.items[k].label.sid,
                      hs.items[i].alignments.items[k].logits.sid} :
                     k \in DOMAIN hs.items[i].alignments.items}) :
        i \in DOMAIN hs.items}

\* ----------------------------------------------------------------- actions
\* One accumulator is driven per behaviour: the two classes share no state.
Init ==
    /\ hyps = None
    /\ aligns = None
    /\ made = None
    /\ last = [op |-> "none", raised |-> "none"]
    /\ h_log = <<>>
    /\ a_log = <<>>
    /\ hypotheses = None
    /\ heap = <<>>

\* labels and alignment steps appended so far
Used ==
    (IF hyps = None THEN 0 ELSE SumOver(hyps.lengths, DOMAIN hyps.lengths))
    + (IF aligns = None THEN 0
       ELSE SumOver([b \in DOMAIN a_log |-> Len(a_log[b])], DOMAIN a_log))

\* hyps = BatchedHyps(batch_size, init_length)
NewBatchedHyps ==
    /\ hyps = None
    /\ aligns = None
    /\ \E batch_size \in -1..MaxBatch, init_length \in -1..MaxInit :
         LET r == BatchedHyps_init(batch_size, init_length)
             args == [op |-> "BatchedHyps", batch_size |-> batch_size,
                      init_length |-> init_length]
         IN /\ hyps' = r.self
            /\ last' = [op |-> "BatchedHyps", batch_size |-> batch_size,
                        init_length |-> init_length, raised |-> r.raised]
            /\ made' = IF r.raised = "none" THEN args ELSE made
            /\ h_log' = IF r.raised = "none" THEN [b \in 0..(batch_size - 1) |-> <<>>] ELSE h_log
    /\ UNCHANGED <<aligns, a_log, hypotheses, heap>>

\* hyps.add_results_(active_indices, labels, time_indices, scores)
HypsAddResults ==
    /\ hyps # None
    /\ \E active_indices \in ActiveSeqs(made.batch_size) :
       \E emitted \in [1..Len(active_indices) -> Emissions],
          time_indices \in [1..Len(active_indices) -> TimeIndices] :
         LET labels == [i \in 1..Len(active_indices) |-> emitted[i].label]
             scores == [i \in 1..Len(active_indices) |-> emitted[i].score]
         IN
         /\ SumOver(hyps.lengths, DOMAIN hyps.lengths) + Len(active_indices) <= MaxTotal
         /\ aligns # None => Used + Len(active_indices) <= MaxSession
         /\ \E o \in BatchedHyps_add_results_(hyps, active_indices, labels, time_indices, scores) :
              /\ hyps' = o.self
              /\ heap' = Refresh(heap, o.self, aligns)
              /\ last' = [op |-> "BatchedHyps.add_results_", active_indices |-> active_indices,
                          labels |-> labels, time_indices |-> time_indices,
                          scores |-> scores, raised |-> o.raised]
         /\ h_log' = [b \in DOMAIN h_log |->
              LET i == PosOf(active_indices, b)
              IN IF i = 0 THEN h_log[b]
                 ELSE Append(h_log[b], [label |-> labels[i], time |-> time_indices[i],
                                       score |-> scores[i]])]
    /\ UNCHANGED <<aligns, made, a_log, hypotheses>>

\* aligns = BatchedAlignments(batch_size, logits_dim, init_length,
\*                            with_frame_confidence=...)
NewBatchedAlignments ==
    /\ hyps = None
    /\ aligns = None
    /\ \E batch_size \in -1..MaxBatch, logits_dim \in -1..MaxDim,
          init_length \in -1..MaxInit, with_frame_confidence \in BOOLEAN :
         /\ LET r == BatchedAlignments_init(batch_size, logits_dim, init_length,
                                            with_frame_confidence)
                args == [op |-> "BatchedAlignments", batch_size |-> batch_size,
                         logits_dim |-> logits_dim, init_length |-> init_length,
                         with_frame_confidence |-> with_frame_confidence]
            IN /\ aligns' = r.self
               /\ last' = [op |-> "BatchedAlignments", batch_size |-> batch_size,
                           logits_dim |-> logits_dim, init_length |-> init_length,
                           with_frame_confidence |-> with_frame_confidence,
                           raised |-> r.raised]
               /\ made' = IF r.raised = "none" THEN args ELSE made
               /\ a_log' = IF r.raised = "none" THEN [b \in 0..(batch_size - 1) |-> <<>>] ELSE a_log
    /\ UNCHANGED <<hyps, h_log, hypotheses, heap>>

\* the row of width logits_dim that starts with the logit v
LogitRow(v, logits_dim) == [k \in 1..logits_dim |-> v + k - 1]

\* aligns.add_results_(active_indices, logits, labels, confidence)
AlignsAddResults ==
    /\ aligns # None
    /\ \E active_indices \in ActiveSeqs(made.batch_size) :
       \E step \in [1..Len(active_indices) -> StepResults], with_confidence \in BOOLEAN :
         LET logits == [i \in 1..Len(active_indices) |->
                          LogitRow(step[i].logit, made.logits_dim)]
             labels == [i \in 1..Len(active_indices) |-> step[i].label]
             confidence == IF with_confidence
                           THEN [cls |-> "Values",
                                 values |-> [i \in 1..Len(active_indices) |->
                                               step[i].confidence]]
                           ELSE None
         IN
         /\ Used + Len(active_indices) <= (IF hyps = None THEN MaxSteps ELSE MaxSession)
         /\ \E o \in BatchedAlignments_add_results_(aligns, active_indices, logits, labels,
                                                    confidence) :
              /\ aligns' = o.self
              /\ heap' = Refresh(heap, hyps, o.self)
              /\ last' = [op |-> "BatchedAlignments.add_results_",
                          active_indices |-> active_indices, logits |-> logits,
                          labels |-> labels, confidence |-> confidence, raised |-> o.raised]
         /\ a_log' = [b \in DOMAIN a_log |->
              LET i == PosOf(active_indices, b)
              IN IF i = 0 THEN a_log[b]
                 ELSE Append(a_log[b], [logits |-> logits[i], label |-> labels[i]])]
    /\ UNCHANGED <<hyps, made, h_log, hypotheses>>

\* hypotheses = batched_hyps_to_hypotheses(hyps) or
\* hypotheses = batched_hyps_to_hypotheses(hyps, aligns)
Convert ==
    /\ hyps # None
    /\ \E with_alignments \in {x \in BOOLEAN : x => aligns # None} :
         LET r == batched_hyps_to_hypotheses(hyps, IF with_alignments THEN aligns ELSE None)
             a == IF with_alignments THEN r.alignments ELSE aligns
         IN /\ hyps' = r.batched_hyps
            /\ aligns' = a
            /\ hypotheses' = IF r.raised = "none" THEN r.hypotheses ELSE hypotheses
            /\ heap' = IF r.raised = "none"
                       THEN [s \in Referenced(r.hypotheses) |->
                               LiveData(s, r.batched_hyps, a)]
                       ELSE Refresh(heap, r.batched_hyps, a)
            /\ last' = [op |-> "batched_hyps_to_hypotheses",
                        with_alignments |-> with_alignments, raised |-> r.raised,
                        again |-> /\ last.op = "batched_hyps_to_hypotheses"
                                  /\ last.with_alignments = with_alignments]
    /\ UNCHANGED <<made, h_log, a_log>>

\* a decoding session: hyps = BatchedHyps(batch_size, init_length), alone or
\* with aligns = BatchedAlignments(batch_size, logits_dim, init_length,
\* with_frame_confidence=...) for the same batch
NewSession ==
    /\ hyps = None
    /\ aligns = None
    /\ \E batch_size \in 1..MaxBatch, init_length \in 1..MaxInit,
          logits_dim \in 1..MaxDim, with_frame_confidence \in BOOLEAN,
          with_alignments \in BOOLEAN :
         /\ ~with_alignments => (logits_dim = 1 /\ ~with_frame_confidence)
         /\ hyps' = BatchedHyps_init(batch_size, init_length).self
         /\ aligns' = IF with_alignments
                      THEN BatchedAlignments_init(batch_size, logits_dim, init_length,
                                                  with_frame_confidence).self
                      ELSE None
         /\ made' = [op |-> "session", batch_size |-> batch_size,
                     init_length |-> init_length, logits_dim |-> logits_dim,
                     with_frame_confidence |-> with_frame_confidence]
         /\ last' = [op |-> "session", raised |-> "none"]
         /\ h_log' = [b \in 0..(batch_size - 1) |-> <<>>]
         /\ a_log' = IF with_alignments THEN [b \in 0..(batch_size - 1) |-> <<>>] ELSE a_log
    /\ UNCHANGED <<hypotheses, heap>>

NextHyps == NewBatchedHyps \/ HypsAddResults

NextAligns == NewBatchedAlignments \/ AlignsAddResults

Next == NextHyps \/ NextAligns

Spec == Init /\ [][Next]_vars

\* a BatchedHyps alone
SpecHyps == Init /\ [][NextHyps]_vars

\* The calls of a session that are followed: at least one active index, the
\* indices in increasing order, confidences supplied exactly when they are
\* tracked.
SessionCall ==
    /\ Len(last'.active_indices) > 0
    /\ \A i, j \in 1..Len(last'.active_indices) :
         i < j => last'.active_indices[i] < last'.active_indices[j]
    /\ last'.op = "BatchedAlignments.add_results_" =>
         ((last'.confidence # None) <=> made.with_frame_confidence)

\* nothing was converted yet
NotConverted == hypotheses = None /\ last.op # "batched_hyps_to_hypotheses"

\* sessions that end in conversions: labels are appended to a BatchedHyps
\* that is alone, steps to a BatchedAlignments, MaxSteps of them in all, and
\* nothing is appended once the hypotheses were built
NextConvert ==
    \/ NewSession
    \/ (NotConverted /\ aligns = None /\ HypsAddResults /\ SessionCall
          /\ Used' <= MaxSteps)
    \/ (NotConverted /\ AlignsAddResults /\ SessionCall /\ Used' <= MaxSteps)
    \/ Convert

SpecConvert == Init /\ [][NextConvert]_vars

\* sessions that go on after a conversion
NextAlias ==
    \/ NewSession
    \/ (HypsAddResults /\ SessionCall)
    \/ (AlignsAddResults /\ SessionCall)
    \/ Convert

SpecAlias == Init /\ [][NextAlias]_vars

\* one BatchedHyps, every append with a non-empty active set in increasing
\* order
NextCommute == NewBatchedHyps \/ (HypsAddResults /\ SessionCall)

SpecCommute == Init /\ [][NextCommute]_vars

\* ------------------------------------------------------------------ claims
\* the step is a call hyps.add_results_(...) with a non-empty active set
HypsAddStep ==
    /\ hyps # None
    /\ last'.op = "BatchedHyps.add_results_"
    /\ Len(last'.active_indices) > 0

Batch(obj) == DOMAIN obj.lengths

\* C1: an append with distinct in-range active indices adds d to score[b],
\* writes the label and time index at position n = length[b], sets
\* last_time[b] and makes length[b] = n + 1 for every active b; for every
\* other b the length, score, last_time, repeat_count and the valid prefix of
\* labels and time_index are unchanged.
C1_AppendEffect ==
    [][HypsAddStep =>
        /\ last'.raised = "none"
        /\ \A b \in Batch(hyps) :
             LET i == PosOf(last'.active_indices, b)
                 n == hyps.lengths[b]
             IN IF i # 0
                THEN /\ hyps'.scores[b] = hyps.scores[b] + last'.scores[i]
                     /\ At2(hyps'.transcript, b, n) = last'.labels[i]
                     /\ At2(hyps'.timesteps, b, n) = last'.time_indices[i]
                     /\ hyps'.last_timestep[b] = last'.time_indices[i]
                     /\ hyps'.lengths[b] = n + 1
                ELSE /\ hyps'.lengths[b] = n
                     /\ hyps'.scores[b] = hyps.scores[b]
                     /\ hyps'.last_timestep[b] = hyps.last_timestep[b]
                     /\ hyps'.last_timestep_lasts[b] = hyps.last_timestep_lasts[b]
                     /\ \A j \in 0..(n - 1) :
                          /\ At2(hyps'.transcript, b, j) = At2(hyps.transcript, b, j)
                          /\ At2(hyps'.timesteps, b, j) = At2(hyps.timesteps, b, j)
    ]_vars

\* an append to item 1 alone has acted while item 0 holds a label
C1_Witness ==
    /\ hyps # None
    /\ last.op = "BatchedHyps.add_results_"
    /\ last.active_indices = <<1>>
    /\ hyps.lengths[0] >= 1
    /\ hyps.lengths[1] >= 2

\* the number of trailing entries of timesteps[b, 0:lengths[b]] equal to t
TrailingEqual(obj, b, t) ==
    LET n == obj.lengths[b]
    IN MaxOf({k \in 0..n : \A j \in (n - k)..(n - 1) : At2(obj.timesteps, b, j) = t})

\* C2: in every reachable state repeat_count[b] is the number of trailing
\* entries of time_index[b, 0:length[b]] equal to last_time[b], and 0 with
\* last_time[b] = -1 when length[b] = 0.
C2_RepeatCount ==
    hyps # None =>
        \A b \in Batch(hyps) :
            /\ hyps.last_timestep_lasts[b] = TrailingEqual(hyps, b, hyps.last_timestep[b])
            /\ hyps.lengths[b] = 0 =>
                 hyps.last_timestep[b] = -1 /\ hyps.last_timestep_lasts[b] = 0

\* an item with three labels, the last two at one time index, the first at another
C2_Witness ==
    /\ hyps # None
    /\ \E b \in Batch(hyps) :
         /\ hyps.lengths[b] = 3
         /\ hyps.last_timestep_lasts[b] = 2
         /\ At2(hyps.timesteps, b, 0) # At2(hyps.timesteps, b, 2)

\* C3: the dense buffers hold, per item, exactly the labels, time indices and
\* score deltas supplied for it, in call order, growth included.
C3_RefinesLists ==
    hyps # None =>
        \A b \in Batch(hyps) :
            /\ hyps.lengths[b] = Len(h_log[b])
            /\ \A j \in 0..(Len(h_log[b]) - 1) :
                 /\ At2(hyps.transcript, b, j) = h_log[b][j + 1].label
                 /\ At2(hyps.timesteps, b, j) = h_log[b][j + 1].time
            /\ hyps.scores[b] =
                 SumOver([j \in 1..Len(h_log[b]) |-> h_log[b][j].score], 1..Len(h_log[b]))

\* two items hold labels after the buffers grew from one column to four
C3_Witness ==
    /\ hyps # None
    /\ made.batch_size = 2
    /\ made.init_length = 1
    /\ hyps.max_length = 4
    /\ hyps.lengths[0] = 1
    /\ hyps.lengths[1] = 2

\* the step is an append to hyps in which the capacity or a buffer shape changed
HypsGrowStep ==
    /\ HypsAddStep
    /\ \/ hyps'.max_length # hyps.max_length
       \/ hyps'.transcript.shape # hyps.transcript.shape
       \/ hyps'.timesteps.shape # hyps.timesteps.shape

\* C4: when an append grows the buffers, capacity exactly doubles, every cell
\* below the old capacity keeps its value, the added columns are zero (the
\* cell the append itself writes aside), and no length changes but by the append.
C4_GrowthPreserves ==
    [][HypsGrowStep =>
        LET cap == hyps.max_length
            n == Cardinality(Batch(hyps))
        IN /\ hyps'.max_length = 2 * cap
           /\ hyps'.transcript.shape = <<n, 2 * cap>>
           /\ hyps'.timesteps.shape = <<n, 2 * cap>>
           /\ \A b \in Batch(hyps) :
                /\ hyps'.lengths[b] =
                     hyps.lengths[b] + (IF PosOf(last'.active_indices, b) # 0 THEN 1 ELSE 0)
                /\ \A j \in 0..(2 * cap - 1) :
                     (PosOf(last'.active_indices, b) = 0 \/ j # hyps.lengths[b]) =>
                        IF j < cap
                        THEN /\ At2(hyps'.transcript, b, j) = At2(hyps.transcript, b, j)
                             /\ At2(hyps'.timesteps, b, j) = At2(hyps.timesteps, b, j)
                        ELSE /\ At2(hyps'.transcript, b, j) = 0
                             /\ At2(hyps'.timesteps, b, j) = 0
    ]_vars

\* an append to item 0 grew one column to two while item 1 held a label
C4_Witness ==
    /\ hyps # None
    /\ made.batch_size = 2
    /\ made.init_length = 1
    /\ last.op = "BatchedHyps.add_results_"
    /\ last.active_indices = <<0>>
    /\ hyps.max_length = 2
    /\ hyps.lengths[0] = 2
    /\ hyps.lengths[1] = 1

\* m is init times a power of two
RECURSIVE IsDoubling(_, _)
IsDoubling(m, init) == m = init \/ (m > init /\ m % 2 = 0 /\ IsDoubling(m \div 2, init))

\* capacity never decreases and is init_length times a power of two
CapacityShape ==
    (hyps # None /\ hyps' # None) =>
        /\ hyps'.max_length >= hyps.max_length
        /\ IsDoubling(hyps'.max_length, made'.init_length)

\* C5 as stated: an append with a non-empty active set doubles capacity iff
\* the largest length among the ACTIVE items is >= capacity before the call;
\* otherwise capacity is unchanged.
C5_GrowthTriggerActive ==
    [][/\ CapacityShape
       /\ HypsAddStep =>
            IF MaxOf({hyps.lengths[b] : b \in Range(last'.active_indices)}) >= hyps.max_length
            THEN hyps'.max_length = 2 * hyps.max_length
            ELSE hyps'.max_length = hyps.max_length
    ]_vars

\* C5 amended: an append with a non-empty active set doubles capacity iff the
\* largest length among ALL items of the batch is >= capacity before the
\* call; in every other call capacity is unchanged.
C5_GrowthTriggerBatch ==
    [][/\ CapacityShape
       /\ HypsAddStep =>
            IF MaxOf({hyps.lengths[b] : b \in Batch(hyps)}) >= hyps.max_length
            THEN hyps'.max_length = 2 * hyps.max_length
            ELSE hyps'.max_length = hyps.max_length
       /\ (hyps # None /\ last'.op = "BatchedHyps.add_results_"
             /\ Len(last'.active_indices) = 0) => hyps'.max_length = hyps.max_length
    ]_vars

\* an append to item 1 alone (length 0) doubled one column to two because
\* item 0, not active, was full
C5_Witness ==
    /\ hyps # None
    /\ made.batch_size = 2
    /\ made.init_length = 1
    /\ last.op = "BatchedHyps.add_results_"
    /\ last.active_indices = <<1>>
    /\ hyps.max_length = 2
    /\ hyps.lengths[0] = 1
    /\ hyps.lengths[1] = 1

\* C6: an append with an empty active set changes no field of either
\* accumulator, raises nothing and grows nothing, also when an item is full.
C6_EmptyAppendNoOp ==
    [][/\ (hyps # None /\ last'.op = "BatchedHyps.add_results_"
             /\ Len(last'.active_indices) = 0) =>
            (hyps' = hyps /\ last'.raised = "none")
       /\ (aligns # None /\ last'.op = "BatchedAlignments.add_results_"
             /\ Len(last'.active_indices) = 0) =>
            (aligns' = aligns /\ last'.raised = "none")
    ]_vars

\* an empty append has acted on a BatchedHyps one of whose items is full
C6_Witness ==
    /\ hyps # None
    /\ last.op = "BatchedHyps.add_results_"
    /\ Len(last.active_indices) = 0
    /\ \E b \in Batch(hyps) : hyps.lengths[b] = hyps.max_length

\* every cell of the tensor is zero
AllZero(t) == \A p \in DOMAIN t.data : t.data[p] = 0

\* C7: BatchedHyps(batch_size, init_length) raises ValueError and leaves no
\* object when either argument is <= 0; otherwise it yields capacity =
\* init_length, zero lengths, scores, repeat counts and buffers, last_time -1.
C7_HypsConstruction ==
    last.op = "BatchedHyps" =>
        IF last.batch_size <= 0 \/ last.init_length <= 0
        THEN last.raised = "ValueError" /\ hyps = None
        ELSE /\ last.raised = "none"
             /\ hyps # None
             /\ hyps.max_length = last.init_length
             /\ DOMAIN hyps.lengths = 0..(last.batch_size - 1)
             /\ hyps.transcript.shape = <<last.batch_size, last.init_length>>
             /\ hyps.timesteps.shape = <<last.batch_size, last.init_length>>
             /\ AllZero(hyps.transcript)
             /\ AllZero(hyps.timesteps)
             /\ \A b \in 0..(last.batch_size - 1) :
                  /\ hyps.lengths[b] = 0
                  /\ hyps.scores[b] = 0
                  /\ hyps.last_timestep_lasts[b] = 0
                  /\ hyps.last_timestep[b] = -1

\* a construction with init_length 0 and a positive batch size was attempted
C7_Witness ==
    /\ last.op = "BatchedHyps"
    /\ last.init_length = 0
    /\ last.batch_size > 0

\* C8: BatchedAlignments(batch_size, logits_dim, init_length) fails, leaving
\* no object, whenever any of the three is <= 0, also when only logits_dim is.
C8_AlignsConstruction ==
    (last.op = "BatchedAlignments"
       /\ (last.batch_size <= 0 \/ last.logits_dim <= 0 \/ last.init_length <= 0)) =>
        (last.raised # "none" /\ aligns = None)

\* the step is a call aligns.add_results_(...) with a non-empty active set
AlignsAddStep ==
    /\ aligns # None
    /\ last'.op = "BatchedAlignments.add_results_"
    /\ Len(last'.active_indices) > 0

\* C9: when an append finds an active item with length >= capacity, capacity
\* doubles, logits becomes [batch x 2*capacity x logits_dim], labels (and
\* frame_confidence if tracked) become [batch x 2*capacity], and every step
\* written before, j < length[b], is unchanged.
C9_AlignsGrowth ==
    [][(AlignsAddStep
          /\ \E b \in Range(last'.active_indices) : aligns.lengths[b] >= aligns.max_length) =>
        LET cap == aligns.max_length
            n == Cardinality(Batch(aligns))
            dim == aligns.logits.shape[3]
        IN /\ aligns'.max_length = 2 * cap
           /\ aligns'.logits.shape = <<n, 2 * cap, dim>>
           /\ aligns'.labels.shape = <<n, 2 * cap>>
           /\ aligns.with_frame_confidence =>
                aligns'.frame_confidence.shape = <<n, 2 * cap>>
           /\ \A b \in Batch(aligns) : \A j \in 0..(aligns.lengths[b] - 1) :
                /\ \A k \in 0..(dim - 1) :
                     At3(aligns'.logits, b, j, k) = At3(aligns.logits, b, j, k)
                /\ At2(aligns'.labels, b, j) = At2(aligns.labels, b, j)
                /\ aligns.with_frame_confidence =>
                     At2(aligns'.frame_confidence, b, j) = At2(aligns.frame_confidence, b, j)
    ]_vars

\* C10: after any sequence of appends (rows of positive width), lengths[b] is the number of calls
\* that included b, and logits[b, j, :] and labels[b, j] are the row and the
\* label supplied for b in its j-th call.
C10_AlignsRecordSteps ==
    (aligns # None /\ made.logits_dim > 0) =>
        \A b \in Batch(aligns) :
            /\ aligns.lengths[b] = Len(a_log[b])
            /\ \A j \in 0..(Len(a_log[b]) - 1) :
                 /\ aligns.logits.shape[3] = Len(a_log[b][j + 1].logits)
                 /\ \A k \in 0..(aligns.logits.shape[3] - 1) :
                      At3(aligns.logits, b, j, k) = a_log[b][j + 1].logits[k + 1]
                 /\ At2(aligns.labels, b, j) = a_log[b][j + 1].label

\* the value, in halves, that a cell x of the tensor t stands for
Halves(t, x) == IF t.dtype = "long" THEN 2 * x ELSE x

\* C11: in a BatchedAlignments that tracks confidence, an append that supplies
\* confidences (and needs no growth) succeeds and stores them exactly: for
\* every active b with pre-call length n, frame_confidence[b, n] is the
\* supplied value, 0.5 included, with no truncation to an integer.
C11_ConfidenceExact ==
    [][(/\ AlignsAddStep
        /\ aligns.with_frame_confidence
        /\ last'.confidence # None
        /\ made.logits_dim > 0
        /\ ~BatchedAlignments_needs_more(aligns)) =>
         /\ last'.raised = "none"
         /\ \A i \in 1..Len(last'.active_indices) :
              LET b == last'.active_indices[i]
                  n == aligns.lengths[b]
              IN Halves(aligns'.frame_confidence, At2(aligns'.frame_confidence, b, n))
                   = last'.confidence.values[i]
    ]_vars

\* C12: confidence tracking is fixed at construction.  Without tracking,
\* frame_confidence is absent in every reachable state and an append that
\* supplies confidences has exactly the effect of the same append without
\* them; with tracking, frame_confidence is present with as many columns as
\* labels in every reachable state, growth included.
C12_ConfidenceFixed ==
    [][/\ aligns' # None =>
            IF made'.with_frame_confidence
            THEN /\ aligns'.with_frame_confidence
                 /\ aligns'.frame_confidence # None
                 /\ aligns'.frame_confidence.shape = aligns'.labels.shape
                 /\ aligns'.frame_confidence.shape[2] = aligns'.max_length
            ELSE /\ ~aligns'.with_frame_confidence
                 /\ aligns'.frame_confidence = None
       /\ (AlignsAddStep /\ ~made.with_frame_confidence /\ last'.confidence # None) =>
            /\ BatchedAlignments_add_results_(aligns, last'.active_indices, last'.logits,
                                               last'.labels, last'.confidence)
                 = BatchedAlignments_add_results_(aligns, last'.active_indices, last'.logits,
                                                  last'.labels, None)
            /\ [raised |-> last'.raised, self |-> aligns'] \in
                 BatchedAlignments_add_results_(aligns, last'.active_indices, last'.logits,
                                                last'.labels, None)
    ]_vars

\* an append that supplied confidences has grown, without raising, a
\* BatchedAlignments that does not track confidence
C12_Witness ==
    /\ aligns # None
    /\ ~made.with_frame_confidence
    /\ last.op = "BatchedAlignments.add_results_"
    /\ last.confidence # None
    /\ last.raised = "none"
    /\ aligns.max_length = 2 * made.init_length

\* what a Hypothesis shows, its views read from the storages
Shown(h, storages) ==
    [score |-> h.score,
     y_sequence |-> Deref(storages, h.y_sequence),
     timestep |-> Deref(storages, h.timestep),
     alignments |->
         IF h.alignments = None THEN None
         ELSE [cls |-> "List",
               items |-> [k \in DOMAIN h.alignments.items |->
                            [label |-> Deref(storages, h.alignments.items[k].label),
                             logits |-> Deref(storages, h.alignments.items[k].logits)]]],
     frame_confidence |-> h.frame_confidence,
     dec_state |-> h.dec_state]

\* what a list of Hypothesis shows
ShownAll(hs, storages) == [i \in DOMAIN hs.items |-> Shown(hs.items[i], storages)]

\* the last call was a conversion
Converted == last.op = "batched_hyps_to_hypotheses"

\* C13: batched_hyps_to_hypotheses returns batch_size Hypothesis in batch
\* order; the b-th has score scores[b], y_sequence transcript[b, :lengths[b]]
\* and timestep timesteps[b, :lengths[b]] (the labels and time indices supplied
\* for b), of length lengths[b] exactly, never the capacity.  Without
\* alignments the call never raises.
C13_MaterializeLabels ==
    Converted =>
        /\ ~last.with_alignments => last.raised = "none"
        /\ last.raised = "none" =>
             /\ DOMAIN hypotheses.items = 0..(made.batch_size - 1)
             /\ \A b \in DOMAIN hypotheses.items :
                  LET h == Shown(hypotheses.items[b], heap)
                      n == hyps.lengths[b]
                  IN /\ h.score = hyps.scores[b]
                     /\ Len(h.y_sequence) = n
                     /\ Len(h.timestep) = n
                     /\ n = Len(h_log[b])
                     /\ \A j \in 1..n :
                          /\ h.y_sequence[j] = At2(hyps.transcript, b, j - 1)
                          /\ h.timestep[j] = At2(hyps.timesteps, b, j - 1)
                          /\ h.y_sequence[j] = h_log[b][j].label
                          /\ h.timestep[j] = h_log[b][j].time

\* converted after a growth: every item holds a label and none is full
C13_Witness ==
    /\ Converted
    /\ last.raised = "none"
    /\ hyps.max_length > made.init_length
    /\ \A b \in Batch(hyps) : hyps.lengths[b] > 0 /\ hyps.lengths[b] < hyps.max_length

\* C14: given a BatchedAlignments in any reachable state, growth included,
\* the conversion returns, for every b, an alignment of exactly lengths[b]
\* entries, the j-th being (labels[b, j], logits[b, j]), and frame_confidence
\* as one list of frame_confidence[b, :lengths[b]] if confidence is tracked,
\* absent otherwise; without a BatchedAlignments both are absent; dec_state is
\* always unset.
C14_MaterializeTrace ==
    Converted =>
        /\ last.raised = "none"
        /\ \A b \in DOMAIN hypotheses.items :
             LET h == Shown(hypotheses.items[b], heap)
             IN /\ h.dec_state = None
                /\ IF ~last.with_alignments
                   THEN h.alignments = None /\ h.frame_confidence = None
                   ELSE /\ h.alignments # None
                        /\ Len(h.alignments.items) = aligns.lengths[b]
                        /\ \A j \in 1..aligns.lengths[b] :
                             /\ h.alignments.items[j].label
                                  = <<At2(aligns.labels, b, j - 1)>>
                             /\ h.alignments.items[j].logits
                                  = [k \in 1..aligns.logits.shape[3] |->
                                        At3(aligns.logits, b, j - 1, k - 1)]
                        /\ IF aligns.with_frame_confidence
                           THEN /\ h.frame_confidence # None
                                /\ Len(h.frame_confidence.items) = 1
                                /\ h.frame_confidence.items[1]
                                     = [j \in 1..aligns.lengths[b] |->
                                           At2(aligns.frame_confidence, b, j - 1)]
                           ELSE h.frame_confidence = None

\* the step is an append to either accumulator
AppendStep ==
    last'.op \in {"BatchedHyps.add_results_", "BatchedAlignments.add_results_"}

\* C15: the Hypothesis list returned by a conversion shows the same scores,
\* label and time sequences, alignments and frame confidences after any later
\* append to the accumulators, with or without growth.
C15_RecordsIndependent ==
    [][(hypotheses # None /\ AppendStep) =>
         ShownAll(hypotheses', heap') = ShownAll(hypotheses, heap)]_vars

\* the storages after one cell of one of them was overwritten
Poke(storages, s, p, v) ==
    [x \in DOMAIN storages |->
        IF x = s THEN [q \in DOMAIN storages[s] |-> IF q = p THEN v ELSE storages[s][q]]
        ELSE storages[x]]

\* the storages that the buffers of the accumulators occupy
BufferStorages ==
    {storage_of("transcript", hyps), storage_of("timesteps", hyps)} \cup
    (IF aligns = None THEN {}
     ELSE {storage_of("labels", aligns), storage_of("logits", aligns)})

\* C16: the returned Hypothesis own copies: a write to any cell of the
\* transcript, timesteps, labels or logits buffer of the accumulators is not
\* visible through a list returned before.
C16_NoAliasing ==
    (hypotheses # None /\ hyps # None) =>
        \A s \in BufferStorages \cap DOMAIN heap :
            \A p \in DOMAIN heap[s] :
                ShownAll(hypotheses, Poke(heap, s, p, heap[s][p] + 1))
                  = ShownAll(hypotheses, heap)

\* C17: two conversions of the same accumulators with no append in between
\* return lists that are equal field by field.
C17_IdempotentRead ==
    [][(Converted /\ last'.op = "batched_hyps_to_hypotheses"
          /\ last'.with_alignments = last.with_alignments) =>
         /\ last'.raised = last.raised
         /\ last'.raised = "none" =>
              /\ DOMAIN hypotheses'.items = DOMAIN hypotheses.items
              /\ ShownAll(hypotheses', heap') = ShownAll(hypotheses, heap)
    ]_vars

\* the same conversion was made twice in a row of a BatchedHyps that holds
\* labels
C17_Witness ==
    /\ Converted
    /\ last.again
    /\ last.raised = "none"
    /\ \E b \in Batch(hyps) : hyps.lengths[b] > 0

\* C18: a conversion leaves every field of the BatchedHyps (capacity,
\* lengths, transcript, timesteps, scores, last_timestep, last_timestep_lasts)
\* and of the BatchedAlignments (capacity, lengths, logits, labels,
\* frame_confidence) as it was.
C18_ConvertNoMutation ==
    [][last'.op = "batched_hyps_to_hypotheses" =>
         /\ hyps' = hyps
         /\ aligns' = aligns
    ]_vars

\* a BatchedHyps that holds labels was converted
C18_Witness ==
    /\ Converted
    /\ ~last.with_alignments
    /\ \E b \in Batch(hyps) : hyps.lengths[b] > 0

\* C19: in every state reached by appends, 0 <= lengths[b] <= capacity for
\* every b and both buffers have capacity columns; the flat position
\* b * capacity + lengths[b] that an append computes (after its growth test)
\* lies inside row b of the buffer, never in another row or past the end.
C19_HypsBounds ==
    [][/\ hyps' # None =>
            /\ hyps'.transcript.shape = <<Cardinality(Batch(hyps')), hyps'.max_length>>
            /\ hyps'.timesteps.shape = <<Cardinality(Batch(hyps')), hyps'.max_length>>
            /\ \A b \in Batch(hyps') :
                 hyps'.lengths[b] >= 0 /\ hyps'.lengths[b] <= hyps'.max_length
       /\ HypsAddStep =>
            /\ last'.raised = "none"
            /\ LET at_write == [hyps' EXCEPT !.lengths = hyps.lengths]
                   indices_to_use == flat_indices(at_write, last'.active_indices)
               IN \A i \in 1..Len(last'.active_indices) :
                    LET b == last'.active_indices[i]
                    IN /\ indices_to_use[i] >= b * hyps'.max_length
                       /\ indices_to_use[i] < (b + 1) * hyps'.max_length
                       /\ indices_to_use[i] < numel(hyps'.transcript.shape)
    ]_vars

\* an append to the last item of the batch, which was full, has grown the
\* buffers and filled the item again
C19_Witness ==
    /\ hyps # None
    /\ made.batch_size = 2
    /\ last.op = "BatchedHyps.add_results_"
    /\ last.active_indices = <<1>>
    /\ hyps.max_length = 2
    /\ hyps.lengths[1] = 2

\* the permutations of 1..n
Perms(n) == {f \in [1..n -> 1..n] : \A i, j \in 1..n : i # j => f[i] # f[j]}

\* the sequence xs rearranged by the permutation f
Permuted(xs, f) == [i \in 1..Len(xs) |-> xs[f[i]]]

\* the fields of item b: its counters and its rows of the buffers
Item(self, b) ==
    [length |-> self.lengths[b], score |-> self.scores[b],
     last_timestep |-> self.last_timestep[b],
     last_timestep_lasts |-> self.last_timestep_lasts[b],
     transcript |-> [j \in 0..(self.max_length - 1) |-> At2(self.transcript, b, j)],
     timesteps |-> [j \in 0..(self.max_length - 1) |-> At2(self.timesteps, b, j)]]

\* the indices are in increasing order
Increasing(xs) == \A i, j \in 1..Len(xs) : i < j => xs[i] < xs[j]

\* C20: an append with distinct active indices gives the same object for
\* every permutation applied jointly to active_indices, labels, time_indices
\* and scores, and what it does to one active item is what the call for that
\* item alone does to it, whatever is supplied for the others.  (Every call
\* is a permutation of the call with its indices in increasing order.)
C20_OrderInsensitive ==
    [][(HypsAddStep /\ Increasing(last'.active_indices)) =>
        /\ \A f \in Perms(Len(last'.active_indices)) :
             BatchedHyps_add_results_(hyps,
                 Permuted(last'.active_indices, f), Permuted(last'.labels, f),
                 Permuted(last'.time_indices, f), Permuted(last'.scores, f))
               = {[raised |-> last'.raised, self |-> hyps']}
        /\ \A i \in 1..Len(last'.active_indices) :
             \A o \in BatchedHyps_add_results_(hyps,
                         <<last'.active_indices[i]>>, <<last'.labels[i]>>,
                         <<last'.time_indices[i]>>, <<last'.scores[i]>>) :
                /\ o.raised = last'.raised
                /\ Item(o.self, last'.active_indices[i])
                     = Item(hyps', last'.active_indices[i])
    ]_vars

\* an append to items 0 and 1 with different labels and time indices has
\* acted on a BatchedHyps that held labels
C20_Witness ==
    /\ hyps # None
    /\ last.op = "BatchedHyps.add_results_"
    /\ last.active_indices = <<0, 1>>
    /\ last.labels[1] # last.labels[2]
    /\ last.time_indices[1] # last.time_indices[2]
    /\ hyps.lengths[0] >= 2

\* timesteps[b, :lengths[b]] is non-decreasing for every b
NonDecreasing(obj) ==
    \A b \in Batch(obj) : \A j \in 1..(obj.lengths[b] - 1) :
        At2(obj.timesteps, b, j - 1) <= At2(obj.timesteps, b, j)

\* C21 as stated: in every state reached by appends with same-length
\* arguments and distinct in-range indices, timesteps[b, :lengths[b]] is
\* non-decreasing for every b.
C21_TimeMonotone ==
    hyps # None => NonDecreasing(hyps)

\* C21 amended: a new BatchedHyps has non-decreasing (empty) time sequences,
\* and an append that supplies for every active b a time index >=
\* last_timestep[b] keeps timesteps[b, :lengths[b]] non-decreasing for every b.
C21_TimeMonotoneOrdered ==
    [][/\ (last'.op = "BatchedHyps" /\ hyps' # None) => NonDecreasing(hyps')
       /\ (/\ HypsAddStep
           /\ NonDecreasing(hyps)
           /\ \A i \in 1..Len(last'.active_indices) :
                last'.time_indices[i] >= hyps.last_timestep[last'.active_indices[i]]) =>
            NonDecreasing(hyps')
    ]_vars

\* an item holds three labels at time indices 0, 0 and 1, appended in order
C21_Witness ==
    /\ hyps # None
    /\ last.op = "BatchedHyps.add_results_"
    /\ \E b \in Batch(hyps) :
         /\ hyps.lengths[b] = 3
         /\ At2(hyps.timesteps, b, 0) = 0
         /\ At2(hyps.timesteps, b, 1) = 0
         /\ At2(hyps.timesteps, b, 2) = 1
         /\ hyps.last_timestep[b] = 1

\* C22: in every state reached by appends, capacity = init_length or
\* capacity <= 2 * (largest length of the batch); an append changes capacity
\* only when some item's length equals the capacity before the call, and
\* then to exactly twice the capacity (one doubling per call).
C22_CapacityProportional ==
    [][/\ hyps' # None =>
            \/ hyps'.max_length = made'.init_length
            \/ hyps'.max_length <= 2 * MaxOf(Range(hyps'.lengths))
       /\ (hyps # None /\ last'.op = "BatchedHyps.add_results_"
             /\ hyps'.max_length # hyps.max_length) =>
            /\ \E b \in Batch(hyps) : hyps.lengths[b] = hyps.max_length
            /\ hyps'.max_length = 2 * hyps.max_length
    ]_vars

\* an append has doubled the capacity and left it at exactly twice the
\* largest length: the item that was full was not active
C22_Witness ==
    /\ hyps # None
    /\ last.op = "BatchedHyps.add_results_"
    /\ hyps.max_length = 2 * made.init_length
    /\ hyps.max_length = 2 * MaxOf(Range(hyps.lengths))
    /\ \E b \in Batch(hyps) \ Range(last.active_indices) :
         hyps.lengths[b] = MaxOf(Range(hyps.lengths))

\* the logical state of a BatchedHyps: per item its counters and the filled
\* prefixes of its rows (not the capacity, not the cells past the length)
Logical(self) ==
    [b \in Batch(self) |->
        [length |-> self.lengths[b], score |-> self.scores[b],
         last_timestep |-> self.last_timestep[b],
         last_timestep_lasts |-> self.last_timestep_lasts[b],
         transcript |-> [j \in 1..self.lengths[b] |-> At2(self.transcript, b, j - 1)],
         timesteps |-> [j \in 1..self.lengths[b] |-> At2(self.timesteps, b, j - 1)]]]

\* what batched_hyps_to_hypotheses(self) raises and what the list it returns
\* shows while self holds the buffers
ConvertShown(self) ==
    LET r == batched_hyps_to_hypotheses(self, None)
    IN [raised |-> r.raised,
        shown |-> IF r.raised # "none" THEN None
                  ELSE [cls |-> "List",
                        items |-> ShownAll(r.hypotheses,
                                    [s \in Referenced(r.hypotheses) |->
                                        LiveData(s, r.batched_hyps, None)])]]

\* the number of labels that self holds
Total(self) == SumOver(self.lengths, DOMAIN self.lengths)

\* the calls add_results_ with a non-empty active set of at most n of the
\* indices of S, in increasing order
Calls(S, n) ==
    UNION {
        {[active_indices |-> a,
          labels |-> [i \in 1..Len(a) |-> emitted[i].label],
          time_indices |-> time_indices,
          scores |-> [i \in 1..Len(a) |-> emitted[i].score]] :
            emitted \in [1..Len(a) -> Emissions],
            time_indices \in [1..Len(a) -> TimeIndices]} :
        a \in {s \in ActiveSeqs(MaxOf(S \cup {-1}) + 1) :
                 Len(s) > 0 /\ Len(s) <= n /\ Increasing(s) /\ Range(s) \subseteq S}}

\* self.add_results_(...) with the arguments of the call c
Apply(self, c) ==
    BatchedHyps_add_results_(self, c.active_indices, c.labels, c.time_indices, c.scores)

\* C23: from every BatchedHyps reached by appends, for every two appends A
\* and B with disjoint non-empty active sets (that leave at most MaxTotal
\* labels in all), A then B and B then A both succeed and give the same
\* lengths, scores, last_timestep, last_timestep_lasts and filled prefixes of
\* transcript and timesteps for every item, and the same shown result of
\* batched_hyps_to_hypotheses, whatever the two capacities are.  (The
\* statement is symmetric in A and B: A is the call that holds the smaller
\* first index.)
C23_DisjointCommute ==
    hyps # None =>
        \A A \in Calls(Batch(hyps), MaxTotal - Total(hyps) - 1) :
          \A oA \in Apply(hyps, A) :
          \A B \in Calls({b \in Batch(hyps) \ Range(A.active_indices) :
                             b > A.active_indices[1]},
                         MaxTotal - Total(hyps) - Len(A.active_indices)) :
          \A oB \in Apply(hyps, B) :
          \A oAB \in Apply(oA.self, B) :
          \A oBA \in Apply(oB.self, A) :
            /\ oA.raised = "none" /\ oAB.raised = "none"
            /\ oB.raised = "none" /\ oBA.raised = "none"
            /\ Logical(oAB.self) = Logical(oBA.self)
            /\ ConvertShown(oAB.self) = ConvertShown(oBA.self)

\* an append has left a BatchedHyps of two items from which one more label
\* for item 0 and one for item 1 end with different capacities in the two
\* orders
C23_Witness ==
    /\ hyps # None
    /\ last.op = "BatchedHyps.add_results_"
    /\ Batch(hyps) = {0, 1}
    /\ Total(hyps) + 2 <= MaxTotal
    /\ \E A \in Calls({0}, 1), B \in Calls({1}, 1) :
         \E oA \in Apply(hyps, A), oB \in Apply(hyps, B) :
         \E oAB \in Apply(oA.self, B), oBA \in Apply(oB.self, A) :
            /\ oAB.raised = "none" /\ oBA.raised = "none"
            /\ oAB.self.max_length # oBA.self.max_length

====
